---- MODULE Spec2Model ----
(***************************************************************************)
(* Model of the Imgur proxy (src/main.py): the URL classifier              *)
(* extract_imgur_id with its SSRF allow-list validate_imgur_url, the       *)
(* identifier validator validate_imgur_id, the redirect builder            *)
(* get_proxy_url, the route table in registration order, and the four      *)
(* request handlers with their outbound requests to the origin.            *)
(*                                                                         *)
(* Strings are sequences of one-character strings, so that the regular     *)
(* expressions and urlparse are computed character by character.  A value  *)
(* bound by an assignment in the source is a parameter of the operator     *)
(* that models the statements after it.                                    *)
(***************************************************************************)
EXTENDS Integers, Sequences, FiniteSets, TLC

VARIABLES
    path,      \* the request path (decoded), a character sequence
    url,       \* the value of the ?url= query parameter (only /proxy reads it)
    pc,        \* "received" | "awaiting" | "done"
    handler,   \* the endpoint the route table selected, "" before dispatch
    log,       \* what the handler did, in program order
    result,    \* extract_imgur_id's return value (proxy_url only)
    redirect,  \* the Location of the redirect (proxy_url only)
    reply,     \* the origin's answer to the outbound request
    status     \* the HTTP status sent to the client, 0 while pending

vars == <<path, url, pc, handler, log, result, redirect, reply, status>>

-----------------------------------------------------------------------------
(* Bounds of the model *)

\* longest alphanumeric run generated for an identifier
MaxRun == 9
\* longest alphanumeric run generated for a file extension
MaxExt == 5
\* most media entries in an origin metadata document
MaxMedia == 2

-----------------------------------------------------------------------------
(* Characters and string primitives *)

Lower ==
    {"a","b","c","d","e","f","g","h","i","j","k","l","m",
     "n","o","p","q","r","s","t","u","v","w","x","y","z"}
Upper ==
    {"A","B","C","D","E","F","G","H","I","J","K","L","M",
     "N","O","P","Q","R","S","T","U","V","W","X","Y","Z"}
Digit ==
    {"0","1","2","3","4","5","6","7","8","9"}

\* the character class [a-zA-Z0-9]
Alnum == Lower \cup Upper \cup Digit
\* the character class \w (on the ASCII alphabet of the model)
WordChar == Alnum \cup {"_"}

\* str.lower(), one character at a time
LowerOf ==
    [c \in Upper |->
        CASE c = "A" -> "a" [] c = "B" -> "b" [] c = "C" -> "c" [] c = "D" -> "d"
          [] c = "E" -> "e" [] c = "F" -> "f" [] c = "G" -> "g" [] c = "H" -> "h"
          [] c = "I" -> "i" [] c = "J" -> "j" [] c = "K" -> "k" [] c = "L" -> "l"
          [] c = "M" -> "m" [] c = "N" -> "n" [] c = "O" -> "o" [] c = "P" -> "p"
          [] c = "Q" -> "q" [] c = "R" -> "r" [] c = "S" -> "s" [] c = "T" -> "t"
          [] c = "U" -> "u" [] c = "V" -> "v" [] c = "W" -> "w" [] c = "X" -> "x"
          [] c = "Y" -> "y" [] c = "Z" -> "z"]
ToLower(s) == [i \in 1..Len(s) |-> IF s[i] \in Upper THEN LowerOf[s[i]] ELSE s[i]]

Range(s) == { s[i] : i \in 1..Len(s) }

\* s[p:] of Python, p 1-based
From(s, p) == IF p > Len(s) THEN <<>> ELSE SubSeq(s, p, Len(s))
\* the characters of s before position p
Before(s, p) == IF p <= 1 THEN <<>> ELSE SubSeq(s, 1, p - 1)

\* the literal lit occurs in s at position p
HasAt(s, p, lit) ==
    /\ p >= 1
    /\ p + Len(lit) - 1 <= Len(s)
    /\ \A i \in 1..Len(lit) : s[p + i - 1] = lit[i]

\* Python's `lit in s`
Contains(s, lit) == \E p \in 1..Len(s) : HasAt(s, p, lit)

Min(S) == CHOOSE x \in S : \A y \in S : x <= y
Max(S) == CHOOSE x \in S : \A y \in S : x >= y

\* the smallest member of S, or d when S is empty
MinOr(S, d) == IF S = {} THEN d ELSE Min(S)
\* the largest member of S, or d when S is empty
MaxOr(S, d) == IF S = {} THEN d ELSE Max(S)

\* position of the first character of s at or after p that is in cs, else Len(s)+1
FirstOf(s, p, cs) == MinOr({ i \in p..Len(s) : s[i] \in cs }, Len(s) + 1)

\* position of the first character of s at or after p that is not in cs, else Len(s)+1
FirstNotOf(s, p, cs) == MinOr({ i \in p..Len(s) : s[i] \notin cs }, Len(s) + 1)

\* n characters of class [a-zA-Z0-9] at positions p .. p+n-1
AlnumAt(s, p, n) ==
    /\ p + n - 1 <= Len(s)
    /\ \A i \in p..(p + n - 1) : s[i] \in Alnum

\* the regex anchor $ (no MULTILINE) before position p: the end of the string,
\* or just before a newline that is the last character
Dollar(s, p) ==
    \/ p = Len(s) + 1
    \/ p = Len(s) /\ s[p] = "\n"

\* the regex group (?:[/?#]|$) before position p
Boundary(s, p) ==
    \/ p <= Len(s) /\ s[p] \in {"/", "?", "#"}
    \/ Dollar(s, p)

-----------------------------------------------------------------------------
(* String literals of the program *)

\* 'http', 'https'
S_http == <<"h","t","t","p">>
S_https == <<"h","t","t","p","s">>
\* the members of ALLOWED_IMGUR_DOMAINS
S_imgur_com == <<"i","m","g","u","r",".","c","o","m">>
S_i_imgur_com == <<"i",".","i","m","g","u","r",".","c","o","m">>
S_www_imgur_com == <<"w","w","w",".","i","m","g","u","r",".","c","o","m">>
S_api_imgur_com == <<"a","p","i",".","i","m","g","u","r",".","c","o","m">>
\* '/a/' and '/gallery/'
S_a == <<"/","a","/">>
S_gallery == <<"/","g","a","l","l","e","r","y","/">>
\* 'i.imgur.com/' and 'imgur.com/' as the patterns spell them
S_i_imgur_com_slash == <<"i",".","i","m","g","u","r",".","c","o","m","/">>
S_imgur_com_slash == <<"i","m","g","u","r",".","c","o","m","/">>

\* os.getenv("BASE_DOMAIN", "http://localhost:8000"), os.getenv("BASE_PATH", "")
BASE_DOMAIN == <<"h","t","t","p",":","/","/","l","o","c","a","l","h","o","s","t",":","8","0","0","0">>
BASE_PATH == <<>>

ALLOWED_IMGUR_DOMAINS ==
    {S_imgur_com, S_i_imgur_com, S_www_imgur_com, S_api_imgur_com}

-----------------------------------------------------------------------------
(* urllib.parse.urlparse, as far as validate_imgur_url reads its result.    *)
(* An optional value is a sequence of length 0 (None) or 1.                 *)

\* _WHATWG_C0_CONTROL_OR_SPACE, on the alphabet of the model
C0Space == {" ", "\t", "\n", "\r"}
\* _UNSAFE_URL_BYTES_TO_REMOVE
NotUnsafe(c) == c \notin {"\t", "\r", "\n"}
\* scheme_chars
SchemeChars == Alnum \cup {"+", "-", "."}

\* Python truthiness of an optional string
Truthy(opt) == opt # <<>> /\ opt[1] # <<>>

\* url.lstrip(_WHATWG_C0_CONTROL_OR_SPACE), then the unsafe bytes removed
url_cleaned(u) == SelectSeq(From(u, FirstNotOf(u, 1, C0Space)), NotUnsafe)

\* the scheme split of urlsplit: colon is url.find(':') (Len+1 when absent)
split_scheme(s, colon) ==
    IF /\ colon <= Len(s)
       /\ colon > 1
       /\ s[1] \in Lower \cup Upper
       /\ \A i \in 1..(colon - 1) : s[i] \in SchemeChars
    THEN [scheme |-> ToLower(Before(s, colon)), rest |-> From(s, colon + 1)]
    ELSE [scheme |-> <<>>, rest |-> s]

\* _splitnetloc(url, 2) when url[:2] == '//'
split_netloc(rest) ==
    IF HasAt(rest, 1, <<"/", "/">>)
    THEN SubSeq(rest, 3, FirstOf(rest, 3, {"/", "?", "#"}) - 1)
    ELSE <<>>

\* _userinfo: netloc.rpartition('@')[0].partition(':'), at the last '@'
userinfo_split(userinfo, sep) ==
    [username |-> <<Before(userinfo, sep)>>,
     password |-> IF sep > Len(userinfo) THEN <<>> ELSE <<From(userinfo, sep + 1)>>]

userinfo_of(netloc, ats) ==
    IF ats = {} THEN [username |-> <<>>, password |-> <<>>]
    ELSE userinfo_split(Before(netloc, Max(ats)),
                        FirstOf(Before(netloc, Max(ats)), 1, {":"}))

\* error: the ValueError("Invalid IPv6 URL") of an unbalanced bracket
parse_result(scheme, netloc, userinfo) ==
    [error |-> ("[" \in Range(netloc)) # ("]" \in Range(netloc)),
     scheme |-> scheme,
     netloc |-> netloc,
     username |-> userinfo.username,
     password |-> userinfo.password]

parse_netloc(scheme, netloc) ==
    parse_result(scheme, netloc,
                 userinfo_of(netloc, { i \in 1..Len(netloc) : netloc[i] = "@" }))

parse_split(sr) == parse_netloc(sr.scheme, split_netloc(sr.rest))

parse_cleaned(s) == parse_split(split_scheme(s, FirstOf(s, 1, {":"})))

urlparse(u) == parse_cleaned(url_cleaned(u))

\* the checks of validate_imgur_url on parsed = urlparse(url); an exception
\* of urlparse is caught and gives False
validate_parsed(parsed) ==
    IF parsed.error THEN FALSE
    ELSE IF parsed.scheme \notin {S_http, S_https} THEN FALSE
    ELSE IF parsed.netloc \notin ALLOWED_IMGUR_DOMAINS THEN FALSE
    ELSE IF Truthy(parsed.username) \/ Truthy(parsed.password) THEN FALSE
    ELSE TRUE

\* A plausible slip: the allow-list looked for anywhere in the raw string.
validate_imgur_url_substring(u) ==
    \E d \in ALLOWED_IMGUR_DOMAINS : Contains(u, d)

validate_imgur_url(u) == validate_parsed(urlparse(u))

-----------------------------------------------------------------------------
(* The regular expressions of extract_imgur_id.  A search returns the       *)
(* captured group in a sequence of length 1, or <<>> when nothing matches.  *)
(* A match attempt at one position returns the position where the group     *)
(* starts (or its length, or where it ends), and 0 when it fails there.     *)

\* the leftmost position at which an attempt succeeds, 0 if none
Leftmost(at) == MinOr({ p \in DOMAIN at : at[p] # 0 }, 0)

\* marker(?:.*-)?([a-zA-Z0-9]{7})(?:[/?#]|$)  attempted at p: where the group
\* starts.  The slug alternative is tried first and .* is greedy: the last
\* hyphen of the line that 7 alphanumerics and a boundary follow.
Slug7Pick(s, q, hyphens) ==
    IF hyphens # {} THEN Max(hyphens) + 1
    ELSE IF AlnumAt(s, q, 7) /\ Boundary(s, q + 7) THEN q
    ELSE 0

Slug7At(s, p, marker) ==
    IF ~HasAt(s, p, marker) THEN 0
    ELSE Slug7Pick(s, p + Len(marker),
            { k \in (p + Len(marker))..(FirstOf(s, p + Len(marker), {"\n"}) - 1) :
                /\ s[k] = "-"
                /\ AlnumAt(s, k + 1, 7)
                /\ Boundary(s, k + 8) })

GroupFrom(s, at, p, n) == IF p = 0 THEN <<>> ELSE <<SubSeq(s, at[p], at[p] + n - 1)>>

Slug7Group(s, at) == GroupFrom(s, at, Leftmost(at), 7)

\* re.search(r'<marker>(?:.*-)?([a-zA-Z0-9]{7})(?:[/?#]|$)', s)
search_slug7(s, marker) ==
    Slug7Group(s, [p \in 1..Len(s) |-> Slug7At(s, p, marker)])

\* marker([a-zA-Z0-9]{5,7})(?:[/?#]|$)  attempted at p: the length of the
\* group, the longest first
Run57At(s, p, marker) ==
    IF ~HasAt(s, p, marker) THEN 0
    ELSE MaxOr({ n \in 5..7 : /\ AlnumAt(s, p + Len(marker), n)
                              /\ Boundary(s, p + Len(marker) + n) }, 0)

Run57Group(s, at, p, m) ==
    IF p = 0 THEN <<>> ELSE <<SubSeq(s, p + m, p + m + at[p] - 1)>>

\* re.search(r'<marker>([a-zA-Z0-9]{5,7})(?:[/?#]|$)', s)
search_run57At(s, at, marker) == Run57Group(s, at, Leftmost(at), Len(marker))
search_run57(s, marker) ==
    search_run57At(s, [p \in 1..Len(s) |-> Run57At(s, p, marker)], marker)

\* i\.imgur\.com/([a-zA-Z0-9]+\.\w+)  attempted at p: where the group ends.
\* Both runs are greedy and what follows each cannot be part of it, so dot is
\* the first non-alphanumeric after the host and the group ends before the
\* first non-word character after the dot.
DirectEnd(s, q, dot) ==
    IF dot > q /\ dot <= Len(s) /\ s[dot] = "." /\ FirstNotOf(s, dot + 1, WordChar) > dot + 1
    THEN FirstNotOf(s, dot + 1, WordChar) - 1
    ELSE 0

DirectAt(s, p) ==
    IF ~HasAt(s, p, S_i_imgur_com_slash) THEN 0
    ELSE DirectEnd(s, p + Len(S_i_imgur_com_slash),
                   FirstNotOf(s, p + Len(S_i_imgur_com_slash), Alnum))

DirectGroup(s, at, p) ==
    IF p = 0 THEN <<>> ELSE <<SubSeq(s, p + Len(S_i_imgur_com_slash), at[p])>>

\* re.search(r'i\.imgur\.com/([a-zA-Z0-9]+\.\w+)', s)
search_directAt(s, at) == DirectGroup(s, at, Leftmost(at))
search_direct(s) == search_directAt(s, [p \in 1..Len(s) |-> DirectAt(s, p)])

\* imgur\.com/(.+)  attempted at p: where the group starts; . is any
\* character but a newline
PathAt(s, p) ==
    IF /\ HasAt(s, p, S_imgur_com_slash)
       /\ p + Len(S_imgur_com_slash) <= Len(s)
       /\ s[p + Len(S_imgur_com_slash)] # "\n"
    THEN p + Len(S_imgur_com_slash)
    ELSE 0

PathGroup(s, at, p) ==
    IF p = 0 THEN <<>> ELSE <<SubSeq(s, at[p], FirstOf(s, at[p], {"\n"}) - 1)>>

\* re.search(r'imgur\.com/(.+)', s)
search_pathAt(s, at) == PathGroup(s, at, Leftmost(at))
search_path(s) == search_pathAt(s, [p \in 1..Len(s) |-> PathAt(s, p)])

\* s.split(c)[0]
SplitHead(s, c) == Before(s, FirstOf(s, 1, {c}))

\* ([a-zA-Z0-9]{5,7})$  attempted at i: the length of the group, the longest first
Tail57At(s, i) ==
    MaxOr({ n \in 5..7 : AlnumAt(s, i, n) /\ Dollar(s, i + n) }, 0)

Tail57Group(s, at, i) == IF i = 0 THEN <<>> ELSE <<SubSeq(s, i, i + at[i] - 1)>>

\* re.search(r'([a-zA-Z0-9]{5,7})$', s)
search_tail57At(s, at) == Tail57Group(s, at, Leftmost(at))
search_tail57(s) == search_tail57At(s, [i \in 1..Len(s) |-> Tail57At(s, i)])

-----------------------------------------------------------------------------
(* extract_imgur_id *)

NoRef == [kind |-> "none", id |-> <<>>]
Ref(kind, group) == [kind |-> kind, id |-> group[1]]

\* What one `if marker in url:` block of extract_imgur_id does: [ref,
\* evaluated], the reference it returns (NoRef when it falls through to the
\* next block) and the patterns it evaluated, in order.
Skipped == [ref |-> NoRef, evaluated |-> <<>>]

\* the 7-character pattern, then the 5-to-7 one
two_patterns(m1, m2, n1, n2) ==
    IF m1 # <<>> THEN [ref |-> Ref("album", m1), evaluated |-> <<n1>>]
    ELSE IF m2 # <<>> THEN [ref |-> Ref("album", m2), evaluated |-> <<n1, n2>>]
    ELSE [ref |-> NoRef, evaluated |-> <<n1, n2>>]

album_block(u) ==
    IF ~Contains(u, S_a) THEN Skipped
    ELSE two_patterns(search_slug7(u, S_a), search_run57(u, S_a), "a7", "a57")

gallery_block(u) ==
    IF ~Contains(u, S_gallery) THEN Skipped
    ELSE two_patterns(search_slug7(u, S_gallery), search_run57(u, S_gallery),
                      "gallery7", "gallery57")

direct_match(m) ==
    [ref |-> IF m # <<>> THEN Ref("direct", m) ELSE NoRef, evaluated |-> <<"direct">>]

direct_block(u) ==
    IF ~Contains(u, S_i_imgur_com) THEN Skipped ELSE direct_match(search_direct(u))

id_match(m) ==
    [ref |-> IF m # <<>> THEN Ref("image", m) ELSE NoRef,
     evaluated |-> <<"path", "tail57">>]

path_match(pm) ==
    IF pm = <<>> THEN [ref |-> NoRef, evaluated |-> <<"path">>]
    ELSE id_match(search_tail57(SplitHead(SplitHead(pm[1], "?"), "#")))

image_block(u) ==
    IF ~Contains(u, S_imgur_com_slash) THEN Skipped ELSE path_match(search_path(u))

\* a block runs only when the ones before it fell through: r is what the
\* earlier blocks gave, n what this block gives
Then(r, n) ==
    IF r.ref # NoRef THEN r
    ELSE [ref |-> n.ref, evaluated |-> r.evaluated \o n.evaluated]

extract_blocks(u) ==
    Then(Then(Then(album_block(u), gallery_block(u)), direct_block(u)), image_block(u))

\* The log records, in program order, each validation, each pattern
\* evaluated and each outbound request: base is the literal part (of the
\* f-string, or the pattern's name) and arg the value checked or interpolated.
Ev(ev, base, arg, ok) == [ev |-> ev, base |-> base, arg |-> arg, ok |-> ok]

PatternEvs(names) == [i \in 1..Len(names) |-> Ev("pattern", names[i], <<>>, TRUE)]

\* extract_imgur_id with the order of its evaluations: [ref, log]
extract_result(u, ok, r) ==
    IF ~ok
    THEN [ref |-> NoRef, log |-> <<Ev("validate_url", "", u, FALSE)>>]
    ELSE [ref |-> r.ref,
          log |-> <<Ev("validate_url", "", u, TRUE)>> \o PatternEvs(r.evaluated)]

extract_trace(u) == extract_result(u, validate_imgur_url(u), extract_blocks(u))

extract_imgur_id(u) == extract_trace(u).ref

-----------------------------------------------------------------------------
(* get_proxy_url and validate_imgur_id *)

\* path.lstrip("/")
LStripSlash(p) == From(p, FirstNotOf(p, 1, {"/"}))

\* urljoin(f"{BASE_DOMAIN}{BASE_PATH}/", path.lstrip("/")): the relative paths
\* the handlers pass have no scheme, authority, query or dot segment, so the
\* join replaces the (empty) last segment of the base path
get_proxy_url(p) == BASE_DOMAIN \o BASE_PATH \o <<"/">> \o LStripSlash(p)

\* re.match(r'^[a-zA-Z0-9]{5,8}(\.[a-zA-Z0-9]{3,4})?$', s)
match_id_shape(s) ==
    \E n \in 5..8 :
        /\ AlnumAt(s, 1, n)
        /\ \/ Dollar(s, n + 1)
           \/ /\ n + 1 <= Len(s) /\ s[n + 1] = "."
              /\ \E k \in 3..4 : AlnumAt(s, n + 2, k) /\ Dollar(s, n + 2 + k)

validate_imgur_id(imgur_id) ==
    IF ~match_id_shape(imgur_id) THEN FALSE
    ELSE IF \/ Contains(imgur_id, <<".", ".">>)
            \/ Contains(imgur_id, <<"/">>)
            \/ Contains(imgur_id, <<"\\">>)
         THEN FALSE
         ELSE TRUE

-----------------------------------------------------------------------------
(* The route table, in registration order (the router answers with the      *)
(* first route whose path pattern matches).                                 *)

\* static_path, '/', '/proxy', '/i/', '/health'
S_static == <<"/","s","t","a","t","i","c","/">>
S_root == <<"/">>
S_proxy == <<"/","p","r","o","x","y">>
S_i == <<"/","i","/">>
S_health == <<"/","h","e","a","l","t","h">>

\* a path parameter {name}: the pattern [^/]+ up to the end of the path
IsSegment(s) == s # <<>> /\ "/" \notin Range(s)

Route(p) ==
    IF HasAt(p, 1, S_static)
    THEN [name |-> "static", param |-> From(p, Len(S_static) + 1)]
    ELSE IF p = S_root THEN [name |-> "home", param |-> <<>>]
    ELSE IF p = S_proxy THEN [name |-> "proxy_url", param |-> <<>>]
    ELSE IF HasAt(p, 1, S_a) /\ IsSegment(From(p, Len(S_a) + 1))
    THEN [name |-> "serve_album", param |-> From(p, Len(S_a) + 1)]
    ELSE IF HasAt(p, 1, S_i) /\ IsSegment(From(p, Len(S_i) + 1))
    THEN [name |-> "serve_direct_image", param |-> From(p, Len(S_i) + 1)]
    ELSE IF HasAt(p, 1, S_root) /\ IsSegment(From(p, 2))
    THEN [name |-> "serve_image", param |-> From(p, 2)]
    ELSE IF p = S_health THEN [name |-> "health_check", param |-> <<>>]
    ELSE [name |-> "not_found", param |-> <<>>]

-----------------------------------------------------------------------------
(* The handlers *)

IsRequest(e) == e.ev = "request"
\* the outbound requests of a log
Requests(l) == SelectSeq(l, IsRequest)

\* proxy_url: the relative path handed to get_proxy_url
redirect_path(ref) ==
    IF ref.kind = "direct" THEN <<"i", "/">> \o ref.id
    ELSE IF ref.kind = "album" THEN <<"a", "/">> \o ref.id
    ELSE ref.id

\* proxy_url on the result of extract_imgur_id
proxy_response(ref) ==
    IF ref = NoRef THEN [status |-> 400, redirect |-> <<>>]
    ELSE [status |-> 307, redirect |-> get_proxy_url(redirect_path(ref))]

\* A handler up to its first await: the status already decided (0: none yet)
\* and what it did.

\* A plausible slip: the request built before the identifier is checked.
serve_album_unchecked(album_id) ==
    [status |-> 0,
     log |-> <<Ev("request", "https://api.imgur.com/post/v1/albums/", album_id, TRUE),
               Ev("validate_id", "", album_id, TRUE)>>]

serve_album_begin(album_id) ==
    IF ~validate_imgur_id(album_id)
    THEN [status |-> 400, log |-> <<Ev("validate_id", "", album_id, FALSE)>>]
    ELSE [status |-> 0,
          log |-> <<Ev("validate_id", "", album_id, TRUE),
                    Ev("request", "https://api.imgur.com/post/v1/albums/", album_id, TRUE)>>]

serve_direct_image_begin(filename) ==
    IF ~validate_imgur_id(filename)
    THEN [status |-> 400, log |-> <<Ev("validate_id", "", filename, FALSE)>>]
    ELSE [status |-> 0,
          log |-> <<Ev("validate_id", "", filename, TRUE),
                    Ev("request", "https://i.imgur.com/", filename, TRUE)>>]

\* What the handler would do if it fetched the image from the CDN under a
\* guessed extension, instead of asking the metadata API.
serve_image_probing(imgur_id) ==
    IF ~validate_imgur_id(imgur_id)
    THEN [status |-> 400, log |-> <<Ev("validate_id", "", imgur_id, FALSE)>>]
    ELSE [status |-> 0,
          log |-> <<Ev("validate_id", "", imgur_id, TRUE),
                    Ev("request", "https://i.imgur.com/", imgur_id \o <<".","j","p","g">>, TRUE)>>]

serve_image_begin(imgur_id) ==
    IF ~validate_imgur_id(imgur_id)
    THEN [status |-> 400, log |-> <<Ev("validate_id", "", imgur_id, FALSE)>>]
    ELSE [status |-> 0,
          log |-> <<Ev("validate_id", "", imgur_id, TRUE),
                    Ev("request", "https://api.imgur.com/post/v1/media/", imgur_id, TRUE)>>]

\* The origin's answers.  http_error: a transport error or a non-success
\* status (raise_for_status); not_json: a success whose body response.json()
\* rejects; json: a document, with or without a media key, each entry with or
\* without its 'id' and 'ext' keys; bytes: image content.
MediaEntries ==
    { [has_id |-> i, has_ext |-> e] : i \in BOOLEAN, e \in BOOLEAN }

MediaLists ==
    UNION { [1..n -> MediaEntries] : n \in 0..MaxMedia }

NoReply == [kind |-> "none", has_media |-> FALSE, media |-> <<>>]

ApiReplies ==
    { [kind |-> k, has_media |-> FALSE, media |-> <<>>] :
        k \in {"http_error", "not_json", "json"} }
    \cup { [kind |-> "json", has_media |-> TRUE, media |-> m] : m \in MediaLists }

CdnReplies ==
    { [kind |-> k, has_media |-> FALSE, media |-> <<>>] : k \in {"http_error", "bytes"} }

\* the except clauses of serve_album and serve_image: from what the try body
\* raised (or "return") to the status sent.  HTTPException is an Exception and
\* not an httpx.HTTPError, so the second clause catches it.
except_clauses(raised) ==
    IF raised = "return" THEN 200
    ELSE IF raised = "httpx.HTTPError" THEN 404
    ELSE 500

\* album_data.get('media', [])
media_of(r) == IF r.has_media THEN r.media ELSE <<>>

\* the try body of serve_album after the await, on media = media_of(reply)
album_images(media) ==
    IF \E i \in 1..Len(media) : ~media[i].has_id \/ ~media[i].has_ext
    THEN "KeyError"
    ELSE IF media = <<>> THEN "HTTPException(404)"
    ELSE "return"

serve_album_body(r) ==
    IF r.kind = "http_error" THEN "httpx.HTTPError"
    ELSE IF r.kind = "not_json" THEN "ValueError"
    ELSE album_images(media_of(r))

\* the try body of serve_image after the await; of the first entry only 'id'
\* is read without a default
first_media(media_list) ==
    IF media_list = <<>> THEN "HTTPException(404)"
    ELSE IF ~media_list[1].has_id THEN "KeyError"
    ELSE "return"

serve_image_body(r) ==
    IF r.kind = "http_error" THEN "httpx.HTTPError"
    ELSE IF r.kind = "not_json" THEN "ValueError"
    ELSE first_media(media_of(r))

serve_album_finish(r) == except_clauses(serve_album_body(r))
serve_image_finish(r) == except_clauses(serve_image_body(r))
\* serve_direct_image has the httpx.HTTPError clause only
serve_direct_image_finish(r) == IF r.kind = "http_error" THEN 404 ELSE 200

-----------------------------------------------------------------------------
(* The requests explored *)

IdChars == <<"a","b","1","2","c","d","3","X","y","9","z","Q">>
ExtChars == <<"p","n","g","x","y","z","w">>
Run(n) == SubSeq(IdChars, 1, n)
Ext(k) == <<".">> \o SubSeq(ExtChars, 1, k)

Runs == { Run(n) : n \in 4..MaxRun }
Exts == {<<>>} \cup { Ext(k) : k \in 2..MaxExt }
\* nothing, a newline, a backslash, two dots
Tails == {<<>>, <<"\n">>, <<"\\">>, <<".",".">>}

\* path parameters: identifiers, file names, and malformed ones
Params == { r \o e \o t : r \in Runs, e \in Exts, t \in Tails }

Paths ==
    {S_root, S_proxy, S_health, <<"/","s","t","a","t","i","c","/","s",".","c","s","s">>, <<"/","a","/","b","/","c">>}
    \cup { pre \o prm : pre \in {S_root, S_a, S_i}, prm \in Params }

GoodOrigins ==
    { <<"h","t","t","p","s",":","/","/","i","m","g","u","r",".","c","o","m">>,
      <<"h","t","t","p","s",":","/","/","i",".","i","m","g","u","r",".","c","o","m">>,
      <<"h","t","t","p",":","/","/","w","w","w",".","i","m","g","u","r",".","c","o","m">>,
      <<"H","T","T","P","S",":","/","/","a","p","i",".","i","m","g","u","r",".","c","o","m">> }

BadOrigins ==
    { <<"f","t","p",":","/","/","i","m","g","u","r",".","c","o","m">>,
      <<"/","/","i","m","g","u","r",".","c","o","m">>,
      <<"h","t","t","p","s",":","/","i","m","g","u","r",".","c","o","m">>,
      <<"h","t","t","p","s",":","/","/","e","v","i","l",".","n","e","t">>,
      <<"h","t","t","p","s",":","/","/","i","m","g","u","r",".","c","o","m",".","e","v","i","l",".","n","e","t">>,
      <<"h","t","t","p","s",":","/","/","n","o","t","i","m","g","u","r",".","c","o","m">>,
      <<"h","t","t","p","s",":","/","/","u","s","e","r",":","p","a","s","s","@","i","m","g","u","r",".","c","o","m">>,
      <<"h","t","t","p","s",":","/","/","i","m","g","u","r",".","c","o","m","@","e","v","i","l",".","n","e","t">>,
      <<"h","t","t","p","s",":","/","/","i","m","g","u","r",".","c","o","m",":","4","4","3">>,
      <<"h","t","t","p","s",":","/","/","[","i","m","g","u","r",".","c","o","m">>,
      <<"h","t","t","p","s",":","/","/","I","M","G","U","R",".","c","o","m">> }

UrlPrefixes ==
    { <<"/">>,
      <<"/","a","/">>,
      <<"/","a","/","m","y","-","t","i","t","l","e","-">>,
      <<"/","g","a","l","l","e","r","y","/">>,
      <<"/","g","a","l","l","e","r","y","/","m","y","-","t","i","t","l","e","-">>,
      <<"/","i","m","g","u","r",".","c","o","m","/">>,
      <<"/","i",".","i","m","g","u","r",".","c","o","m","/">> }

\* after the identifier: nothing, an extension, a slash
UrlPosts == { <<>>, <<".","p","n","g">>, <<"/">> }

\* after the path: nothing, a query, markers inside a query or a fragment,
\* a newline
UrlSuffixes ==
    { <<>>,
      <<"?","x","=","1">>,
      <<"?","u","=","/","a","/","z","z","9","9","a","a","1">>,
      <<"#","/","g","a","l","l","e","r","y","/","z","z","9","9","a","a","1">>,
      <<"?","u","=","i",".","i","m","g","u","r",".","c","o","m","/","q",".","x">>,
      <<"#","i","m","g","u","r",".","c","o","m","/","z","z","9","9","a","a","1">>,
      <<"\n">> }

UrlPaths ==
    {<<>>} \cup { pre \o r \o post : pre \in UrlPrefixes, r \in Runs, post \in UrlPosts }

UrlPathsBad ==
    {<<>>} \cup { pre \o Run(7) : pre \in UrlPrefixes }

Urls ==
    { o \o p \o s : o \in GoodOrigins, p \in UrlPaths, s \in UrlSuffixes }
    \cup { o \o p \o s : o \in BadOrigins, p \in UrlPathsBad, s \in UrlSuffixes }

-----------------------------------------------------------------------------
(* The state machine: one request, from its arrival to its response *)

Init ==
    /\ path \in Paths
    /\ url \in IF path = S_proxy THEN Urls ELSE {<<>>}
    /\ pc = "received"
    /\ handler = ""
    /\ log = <<>>
    /\ result = NoRef
    /\ redirect = <<>>
    /\ reply = NoReply
    /\ status = 0

\* the response of proxy_url, from t = extract_trace(url)
Respond(t, resp) ==
    /\ result' = t.ref
    /\ log' = t.log
    /\ redirect' = resp.redirect
    /\ status' = resp.status
    /\ handler' = "proxy_url"
    /\ pc' = "done"
    /\ UNCHANGED <<path, url, reply>>

Classify(t) == Respond(t, proxy_response(t.ref))

\* GET /proxy?url=...
proxy_url ==
    /\ pc = "received"
    /\ Route(path).name = "proxy_url"
    /\ Classify(extract_trace(url))

\* a handler that validates its path parameter and then awaits the origin
Begin(name, b) ==
    /\ handler' = name
    /\ log' = b.log
    /\ status' = b.status
    /\ pc' = IF b.status = 0 THEN "awaiting" ELSE "done"
    /\ UNCHANGED <<path, url, result, redirect, reply>>

\* the origin answers and the handler runs to its response
Finish(r, st) ==
    /\ reply' = r
    /\ status' = st
    /\ pc' = "done"
    /\ UNCHANGED <<path, url, handler, log, result, redirect>>

\* GET /a/{album_id}
serve_album ==
    /\ pc = "received"
    /\ Route(path).name = "serve_album"
    /\ Begin("serve_album", serve_album_begin(Route(path).param))

serve_album_reply ==
    /\ pc = "awaiting"
    /\ handler = "serve_album"
    /\ \E r \in ApiReplies : Finish(r, serve_album_finish(r))

\* GET /i/{filename}
serve_direct_image ==
    /\ pc = "received"
    /\ Route(path).name = "serve_direct_image"
    /\ Begin("serve_direct_image", serve_direct_image_begin(Route(path).param))

serve_direct_image_reply ==
    /\ pc = "awaiting"
    /\ handler = "serve_direct_image"
    /\ \E r \in CdnReplies : Finish(r, serve_direct_image_finish(r))

\* GET /{imgur_id}
serve_image ==
    /\ pc = "received"
    /\ Route(path).name = "serve_image"
    /\ Begin("serve_image", serve_image_begin(Route(path).param))

serve_image_reply ==
    /\ pc = "awaiting"
    /\ handler = "serve_image"
    /\ \E r \in ApiReplies : Finish(r, serve_image_finish(r))

\* home, health_check, the static mount and the router's own 404: no
\* validation, no outbound request.  A static file exists or not.
plain_status(name, found) ==
    IF name = "not_found" THEN 404
    ELSE IF name = "static" /\ ~found THEN 404
    ELSE 200

plain_endpoint ==
    /\ pc = "received"
    /\ Route(path).name \in {"home", "health_check", "static", "not_found"}
    /\ handler' = Route(path).name
    /\ \E found \in BOOLEAN : status' = plain_status(Route(path).name, found)
    /\ pc' = "done"
    /\ UNCHANGED <<path, url, log, result, redirect, reply>>

Next ==
    \/ proxy_url
    \/ serve_album
    \/ serve_album_reply
    \/ serve_direct_image
    \/ serve_direct_image_reply
    \/ serve_image
    \/ serve_image_reply
    \/ plain_endpoint

Spec == Init /\ [][Next]_vars

-----------------------------------------------------------------------------
(* The claims *)

\* the path parameter the route table bound for the current request
Param == Route(path).param

\* the URL without its query and fragment
PathPart(u) == Before(u, FirstOf(u, 1, {"?", "#"}))

\* what the claims require of the parsed URL: scheme http or https, netloc a
\* member of the allow-list, no username and no password
SchemeOk(parsed) == parsed.scheme = S_http \/ parsed.scheme = S_https
HostOk(parsed) == \E d \in ALLOWED_IMGUR_DOMAINS : parsed.netloc = d
NoCredentials(parsed) ==
    /\ parsed.username \in {<<>>, << <<>> >>}
    /\ parsed.password \in {<<>>, << <<>> >>}
ParsedOk(parsed) ==
    ~parsed.error /\ SchemeOk(parsed) /\ HostOk(parsed) /\ NoCredentials(parsed)
UrlAllowed(u) == ParsedOk(urlparse(u))

\* the identifier grammar as a match of the entire string: 5 to 8
\* alphanumerics, optionally a dot and 3 to 4 alphanumerics, nothing else
IdentifierShape(s) ==
    \E n \in 5..8 :
        /\ AlnumAt(s, 1, n)
        /\ \/ Len(s) = n
           \/ /\ Len(s) > n /\ s[n + 1] = "."
              /\ \E k \in 3..4 : AlnumAt(s, n + 2, k) /\ Len(s) = n + 1 + k

ProxyDone == pc = "done" /\ handler = "proxy_url"
IdHandlers == {"serve_album", "serve_direct_image", "serve_image"}

\* C1: extract_imgur_id returns a (kind, identifier) pair only for a URL whose
\* parsed scheme is http or https, whose netloc is exactly a member of
\* ALLOWED_IMGUR_DOMAINS and which carries no username or password; for every
\* other URL it returns None (and /proxy answers 400); the validation is the
\* first thing it does, and no extraction pattern is evaluated unless it passed.
C1_AllowListFirst ==
    ProxyDone =>
        /\ log # <<>>
        /\ log[1].ev = "validate_url" /\ log[1].arg = url
        /\ \A i \in 2..Len(log) : log[i].ev = "pattern"
        /\ log[1].ok = UrlAllowed(url)
        /\ (result # NoRef \/ Len(log) > 1) => UrlAllowed(url)
        /\ ~UrlAllowed(url) => result = NoRef /\ status = 400 /\ redirect = <<>>

\* C1 witness: a URL of a foreign or malformed authority that contains an
\* allow-listed domain and an identifier is answered None.
C1_Witness ==
    /\ ProxyDone
    /\ ~UrlAllowed(url)
    /\ Contains(url, S_imgur_com_slash)
    /\ extract_blocks(url).ref # NoRef
    /\ result = NoRef
    /\ status = 400

\* C2: GET /health is always answered by health_check with a success
\* response, without any outbound request; it is never handled by the
\* /{imgur_id} viewer route.
C2_HealthAlwaysSucceeds ==
    (path = S_health /\ pc # "received") =>
        /\ handler = "health_check"
        /\ status = 200
        /\ Requests(log) = <<>>

\* C3: validate_imgur_id accepts a string only if the entire string is 5 to 8
\* alphanumerics optionally followed by a dot and 3 to 4 alphanumerics (a
\* trailing newline is an additional character), and never one that contains
\* '..', '/' or a backslash.
C3_FullStringShape ==
    \A i \in 1..Len(log) :
        (log[i].ev = "validate_id" /\ log[i].ok) =>
            /\ IdentifierShape(log[i].arg)
            /\ ~Contains(log[i].arg, <<".", ".">>)
            /\ ~Contains(log[i].arg, <<"/">>)
            /\ ~Contains(log[i].arg, <<"\\">>)

\* C4: the identifier extract_imgur_id returns comes from the path of the URL
\* only: the URL with its query and fragment removed yields the same kind and
\* identifier.
C4_PathOnly ==
    (ProxyDone /\ result # NoRef) => extract_imgur_id(PathPart(url)) = result

\* C5: every identifier extract_imgur_id returns satisfies validate_imgur_id,
\* so the route that receives the redirect of /proxy does not reject it.
C5_ExtractedIdValid ==
    (ProxyDone /\ result # NoRef) =>
        /\ validate_imgur_id(result.id)
        /\ validate_imgur_id(Route(From(redirect, Len(BASE_DOMAIN \o BASE_PATH) + 1)).param)

\* the candidate extensions of the claimed probing, in order
ProbeOrder == << <<"j","p","g">>, <<"p","n","g">>, <<"g","i","f">>, <<"j","p","e","g">>, <<"w","e","b","p">> >>

C7_EmptyMediaIs404 ==
    (/\ pc = "done"
     /\ handler \in {"serve_album", "serve_image"}
     /\ reply.kind = "json"
     /\ media_of(reply) = <<>>) => status = 404

\* C8: GET /i/{filename} rejects every filename without a '.<ext>' part with
\* 400 and issues no outbound CDN request for it.
C8_ExtensionRequired ==
    (handler = "serve_direct_image" /\ "." \notin Range(Param)) =>
        /\ status = 400
        /\ Requests(log) = <<>>

\* C9: for an allow-listed URL whose path contains /a/ or /gallery/,
\* extract_imgur_id returns (album, id) or None, never kind image or direct.
C9_MarkerNeverImage ==
    (/\ ProxyDone
     /\ UrlAllowed(url)
     /\ Contains(PathPart(url), S_a) \/ Contains(PathPart(url), S_gallery))
        => result.kind \in {"album", "none"}

\* the literal part of the outbound URL each handler builds
OutboundBase(h) ==
    IF h = "serve_album" THEN "https://api.imgur.com/post/v1/albums/"
    ELSE IF h = "serve_direct_image" THEN "https://i.imgur.com/"
    ELSE "https://api.imgur.com/post/v1/media/"

\* C10: in GET /a/{album_id}, GET /i/{filename} and GET /{imgur_id} the path
\* parameter is validated before any outbound request: a rejected value ends
\* the request with 400 and no outbound request, and an outbound request is
\* issued only after the validator accepted exactly the value interpolated
\* into its URL.
C10_ValidateBeforeRequest ==
    handler \in IdHandlers =>
        /\ log # <<>>
        /\ log[1].ev = "validate_id"
        /\ log[1].arg = Param
        /\ log[1].ok = validate_imgur_id(Param)
        /\ ~log[1].ok => pc = "done" /\ status = 400 /\ Requests(log) = <<>>
        /\ status = 400 => Requests(log) = <<>>
        /\ \A i \in 1..Len(log) :
              log[i].ev = "request" =>
                  /\ i > 1
                  /\ log[1].ok
                  /\ log[i].arg = log[1].arg
                  /\ log[i].base = OutboundBase(handler)

\* C10 witness: an album request whose identifier was accepted, whose one
\* outbound request was issued and answered.
C10_Witness ==
    /\ handler = "serve_album"
    /\ pc = "done"
    /\ status = 200
    /\ Len(Requests(log)) = 1

====
